---- MODULE Spec2Model ----
(***************************************************************************)
(* Model of the demeter burnt-area pipeline:                               *)
(*   - utils.get_closest_date        (nearest-date search in the catalog)  *)
(*   - DataRetrieval.get_data        (size check, matching, download)      *)
(*   - BurntAreaMapper.get_burnt_area (per-event NBR, reconciliation, dNBR)*)
(*                                                                         *)
(* Time is counted in ticks.  A day has SecsPerDay seconds and a second    *)
(* has UsecPerSec microseconds; the last microsecond of the last second of *)
(* a day is datetime.max.time() (23:59:59.999999) and second 0,            *)
(* microsecond 0 is datetime.min.time() (00:00:00).                        *)
(***************************************************************************)
EXTENDS Integers, Sequences, FiniteSets, TLC

\* ---------------------------------------------------------------- bounds
MaxItems == 3
MaxDay == 3
SecsPerDay == 2
UsecPerSec == 2

MaxTiles == 2
MaxShape == 2
MaxPixel == 1
MaxTransform == 2

MaxCoord == 2
MaxFeatures == 2

\* ------------------------------------------------------ program constants
\* utils.alter_date: delta = 10 days
Delta == 10
\* DataRetrieval.check_items: required_data = 2
RequiredData == 2
\* Event.get_nir_file / get_swir_file: required_data = 1
RequiredTiles == 1
\* write_to_file(..., nodata=0, ...)
Nodata == 0

VARIABLES
    \* --- inputs of a run
    start_date,       \* requested start date (a day)
    end_date,         \* requested end date (a day)
    \* --- get_closest_date called on its own (date matching)
    date_list,        \* the catalog handed to get_closest_date
    pre_ret,          \* outcome of get_closest_date(..., start=True)
    post_ret,         \* outcome of get_closest_date(..., start=False)
    \* --- DataRetrieval
    pc,               \* position inside DataRetrieval.get_data
    items,            \* self.items
    altered_start_date,
    altered_end_date,
    idx,              \* position of the for loop over self.items (1-based)
    labels,           \* event label given to each item of self.items
    dirs,             \* event directories created by check_out_dir
    downloads,        \* files fetched by download_band
    err,              \* exception that left get_data ("none" if none)
    \* --- BurntAreaMapper and its two Events
    bpc,              \* position inside BurntAreaMapper.get_burnt_area
    evdir,            \* does out_dir hold a "*_pre" / "*_post" directory
    tiles,            \* number of *B12.tif / *B08.tif files per event
    handles,          \* every raster handle opened so far, with its closes
    ref,              \* Event.swir / Event.nir / Event.nbr (0 is None)
    arr,              \* pixel arrays of Event.nir / Event.swir
    grid,             \* crs and transform of Event.nir.dataset
    nbr,              \* Event.nbr: array, crs, transform
    dnbr,             \* BurntAreaMapper.dnbr: array, crs, transform
    dref,             \* handle of BurntAreaMapper.dnbr (0 is None)
    out,              \* rasters written by write_to_file
    exc,              \* exception propagating at the moment
    orig,             \* first exception raised in the run
    \* --- AOI
    aoi_pc,           \* position around AOI.__init__ / __exit__
    data,             \* the data argument of AOI.__init__
    geometry,         \* AOI.geometry (<<>> is None)
    aoi,              \* AOI.aoi: "None", "open" or "closed"
    features,         \* AOI.features
    opened,           \* number of fiona.open calls
    aoi_err           \* exception raised by AOI.__init__

dataVars == <<pc, items, altered_start_date, altered_end_date, idx, labels,
              dirs, downloads, err>>
matchVars == <<date_list, pre_ret, post_ret>>
bamVars == <<bpc, evdir, tiles, handles, ref, arr, grid, nbr, dnbr, dref, out,
             exc, orig>>
aoiVars == <<aoi_pc, data, geometry, aoi, features, opened, aoi_err>>
vars == <<start_date, end_date, matchVars, dataVars, bamVars, aoiVars>>

\* ------------------------------------------------------------------ time
TicksPerDay == SecsPerDay * UsecPerSec

\* datetime.strptime(date, "%Y-%m-%d"): midnight of the day
ParseDate(day) == day * TicksPerDay

\* datetime.combine(date, datetime.min.time())
CombineMin(t) == (t \div TicksPerDay) * TicksPerDay

\* datetime.combine(date, datetime.max.time())
CombineMax(t) == (t \div TicksPerDay) * TicksPerDay + (TicksPerDay - 1)

\* strptime(created, "%Y-%m-%dT%H:%M:%S.%fZ").replace(microsecond=0)
ParseCreated(c) == ((c.day * SecsPerDay + c.sec) * UsecPerSec + c.usec)
                   - c.usec

\* datetime.strftime(t, "%Y%m%d")
FormatDate(t) == t \div TicksPerDay

\* alter_date(date, operator, delta)
alter_date(day, operator, delta) ==
    IF operator = "+" THEN day + delta ELSE day - delta

\* --------------------------------------------------------- catalog items
\* A catalog item: properties["created"] and the id.  The id is
\* <platform>_<tile>_<date>_0_L2A (S2A_T56HKJ_20230305_0_L2A); its date is
\* the date of the timestamp the matcher reads.
\* Times of day of the catalog timestamps: the first and the last
\* microsecond of a day (00:00:00.000000 and 23:59:59.999999)
TimesOfDay == {[sec |-> 0, usec |-> 0],
               [sec |-> SecsPerDay - 1, usec |-> UsecPerSec - 1]}

Created == {[day |-> d, sec |-> t.sec, usec |-> t.usec] :
               d \in 1..MaxDay, t \in TimesOfDay}

SceneId(d) == [sat |-> "S2A", tile |-> "T56HKJ", date |-> d]

Item(c) == [created |-> c, id |-> SceneId(c.day)]

\* "<date> in item.id": substring test of an eight-digit date on the id
InId(date, id) == id.date = date

\* strip_scene_name(data): drop the second "_"-separated field (the tile)
strip_scene_name(id) == [sat |-> id.sat, date |-> id.date]

Items == {Item(c) : c \in Created}

Catalogs(n) == UNION {[1..k -> Items] : k \in 0..n}

Days == 1..MaxDay

\* The literal scenario: 2023-01-01T10:00, -05, -15, -25; 2023-01-03/-20
At10(d) == Item([day |-> d, sec |-> 1, usec |-> 0])
ScenarioCatalog == <<At10(1), At10(5), At10(15), At10(25)>>
ScenarioWindow == [start |-> 3, end |-> 20]

\* ------------------------------------------------------ get_closest_date
RECURSIVE Insert(_, _)
Insert(s, x) ==
    IF s = <<>> THEN <<x>>
    ELSE IF x < Head(s) THEN <<x>> \o s
    ELSE <<Head(s)>> \o Insert(Tail(s), x)

RECURSIVE SortAsc(_)
\* list.sort(): ascending
SortAsc(s) == IF s = <<>> THEN <<>> ELSE Insert(SortAsc(Tail(s)), Head(s))

\* date_list = [strptime(item.properties["created"]) ... ]; date_list.sort()
ParsedList(list) == SortAsc([k \in 1..Len(list) |-> ParseCreated(list[k].created)])

\* np.searchsorted(a, v, side): 0-based insertion position in sorted a
\*   left : a[i-1] <  v <= a[i]
\*   right: a[i-1] <= v <  a[i]
searchsorted(a, v, side) ==
    IF side = "left"
    THEN CHOOSE i \in 0..Len(a) :
            /\ \A j \in 1..i : a[j] < v
            /\ \A j \in (i+1)..Len(a) : v <= a[j]
    ELSE CHOOSE i \in 0..Len(a) :
            /\ \A j \in 1..i : a[j] <= v
            /\ \A j \in (i+1)..Len(a) : v < a[j]

\* 0-based index computed by get_closest_date before the list access
ClosestIndex(list, day, start) ==
    IF start
    THEN searchsorted(ParsedList(list), CombineMin(ParseDate(day)), "left") - 1
    ELSE searchsorted(ParsedList(list), CombineMax(ParseDate(day)), "right") + 1

\* Python list indexing a[i] with a 0-based, possibly negative, index:
\* negative indices count from the end, anything else is an IndexError.
PyIndexOk(a, i) == -Len(a) <= i /\ i < Len(a)
PyIndex(a, i) == IF i >= 0 THEN a[i + 1] ELSE a[Len(a) + i + 1]

NoRet == [kind |-> "none", index |-> 0, ts |-> 0, date |-> 0]
Raised(e, i) == [kind |-> e, index |-> i, ts |-> 0, date |-> 0]

\* get_closest_date(date_list, date, start): the formatted date of the
\* element read, together with the index used and the element itself.
get_closest_date(list, day, start) ==
    LET a == ParsedList(list)
        i == ClosestIndex(list, day, start)
    IN  IF PyIndexOk(a, i)
        THEN [kind |-> "ok", index |-> i, ts |-> PyIndex(a, i),
              date |-> FormatDate(PyIndex(a, i))]
        ELSE Raised("IndexError", i)


\* ----------------------------------------------------------- raster data
Events == {"pre", "post"}
Bands == {"swir", "nir"}

PixelValues == 0..MaxPixel

\* Arrays of a raster band: one row of 1..MaxShape pixels
PixelArrays == UNION {[1..n -> PixelValues] : n \in 1..MaxShape}

\* Native CRS of a single tile (UTM zone of T56HKJ), and the CRS
\* reproject_input warps to
NativeCRS == {"EPSG:32756"}
WGS84 == "EPSG:4326"

\* A floating-point value: a finite quotient num/den, or inf, -inf, nan
Num(n, d) == [kind |-> "num", num |-> n, den |-> d]
NaN == [kind |-> "nan", num |-> 0, den |-> 0]
Inf == [kind |-> "inf", num |-> 0, den |-> 0]
NegInf == [kind |-> "ninf", num |-> 0, den |-> 0]

\* numpy true division of two numbers: x / 0 is inf, -inf or nan
Divide(n, d) ==
    IF d # 0 THEN Num(n, d)
    ELSE IF n > 0 THEN Inf
    ELSE IF n < 0 THEN NegInf
    ELSE NaN

\* floating-point subtraction a - b
Subtract(a, b) ==
    IF a.kind = "nan" \/ b.kind = "nan" THEN NaN
    ELSE IF a.kind = "num" /\ b.kind = "num"
         THEN Num(a.num * b.den - b.num * a.den, a.den * b.den)
    ELSE IF a.kind = b.kind THEN NaN
    ELSE IF a.kind = "inf" \/ b.kind = "ninf" THEN Inf
    ELSE NegInf

\* numpy broadcasting of two one-row arrays
Broadcastable(a, b) == Len(a) = Len(b) \/ Len(a) = 1 \/ Len(b) = 1
BroadcastLen(a, b) == IF Len(a) >= Len(b) THEN Len(a) ELSE Len(b)
At(a, k) == IF Len(a) = 1 THEN a[1] ELSE a[k]

\* (nir - swir) / (nir + swir), elementwise
NormalizedBurntRatio(nir, swir) ==
    [k \in 1..BroadcastLen(nir, swir) |->
        Divide(At(nir, k) - At(swir, k), At(nir, k) + At(swir, k))]

\* nbr_pre.arr - nbr_post.arr, elementwise
Difference(a, b) ==
    [k \in 1..BroadcastLen(a, b) |-> Subtract(At(a, k), At(b, k))]

NoImage == [arr |-> <<>>, crs |-> "", transform |-> 0]
NoRef == [swir |-> 0, nir |-> 0, nbr |-> 0]
NoArr == [nir |-> <<>>, swir |-> <<>>]
NoGrid == [crs |-> "", transform |-> 0]

Handle(e, kind, closes) == [ev |-> e, kind |-> kind, closes |-> closes]

\* Image.close() on handle h
CloseHandle(hs, h) == [hs EXCEPT ![h].closes = @ + 1]

At_(e, step) == [ev |-> e, at |-> step]

BamIdle ==
    /\ bpc = At_("bam", "idle")
    /\ evdir = [e \in Events |-> FALSE]
    /\ tiles = [e \in Events |-> [b \in Bands |-> 0]]
    /\ handles = <<>>
    /\ ref = [e \in Events |-> NoRef]
    /\ arr = [e \in Events |-> NoArr]
    /\ grid = [e \in Events |-> NoGrid]
    /\ nbr = [e \in Events |-> NoImage]
    /\ dnbr = NoImage
    /\ dref = 0
    /\ out = [pre |-> <<>>, post |-> <<>>, dnbr |-> <<>>]
    /\ exc = "none"
    /\ orig = "none"

\* ------------------------------------------------------------------- AOI
Min(S) == CHOOSE x \in S : \A y \in S : x <= y
Max(S) == CHOOSE x \in S : \A y \in S : y <= x

\* A polygon: the closed ring of the corners of a rectangle
Ring(x0, y0, x1, y1) ==
    <<<<x0, y0>>, <<x0, y1>>, <<x1, y1>>, <<x1, y0>>, <<x0, y0>>>>

Geometries ==
    {Ring(b[1], b[2], b[3], b[4]) :
        b \in {c \in (0..MaxCoord) \X (0..MaxCoord) \X (0..MaxCoord) \X (0..MaxCoord) :
                  c[1] < c[3] /\ c[2] < c[4]}}

Points(g) == {g[k] : k \in 1..Len(g)}

\* geometry.bounds of a set of vertices: (minx, miny, maxx, maxy)
BoundsOf(pts) ==
    <<Min({q[1] : q \in pts}), Min({q[2] : q \in pts}),
      Max({q[1] : q \in pts}), Max({q[2] : q \in pts})>>

\* Polygon.bounds / shape(feature.geometry).bounds
Bounds(g) == BoundsOf(Points(g))

\* MultiPolygon([shape(f["geometry"]) for f in features]).bounds
MultiBounds(feats) == BoundsOf(UNION {Points(feats[k]) : k \in 1..Len(feats)})

FeatureLists == UNION {[1..k -> Geometries] : k \in 0..MaxFeatures}

AoiData(type, text, geom, exists, content) ==
    [type |-> type, text |-> text, geom |-> geom, exists |-> exists,
     content |-> content]

\* The arguments AOI.__init__ is called with: a polygon object, a string
\* (WKT, malformed WKT, or a file name), a Path, or anything else
AoiInputs ==
    {AoiData("Polygon", "", g, FALSE, <<>>) : g \in Geometries}
    \cup {AoiData("str", "wkt", g, FALSE, <<>>) : g \in Geometries}
    \cup {AoiData("str", "badwkt", <<>>, FALSE, <<>>)}
    \cup {AoiData(t, "path", <<>>, TRUE, c) :
             t \in {"str", "Path"}, c \in FeatureLists}
    \cup {AoiData(t, "path", <<>>, FALSE, <<>>) : t \in {"str", "Path"}}
    \cup {AoiData("other", "", <<>>, FALSE, <<>>)}

\* Outcome of AOI.__init__: the fields of the object and the exception
AoiResult(g, a, f, o, e) ==
    [geometry |-> g, aoi |-> a, features |-> f, opened |-> o, err |-> e]

AoiRaise(e) == AoiResult(<<>>, "None", <<>>, 0, e)

\* isinstance(data, str)
IsStr(d) == d.type = "str"

\* "POLYGON" in data
HasPolygonToken(d) == d.text \in {"wkt", "badwkt"}

\* data_dir.joinpath(data) accepts strings and path-like objects only
JoinPathOk(d) == d.type \in {"str", "Path"}

\* isinstance(data_dir.joinpath(data), Path): whatever joinpath returns
JoinPathIsPath(d) == JoinPathOk(d)

\* isinstance(data, Polygon)
IsPolygon(d) == d.type = "Polygon"

\* AOI.get_feature on the opened file
get_feature(d) ==
    IF Len(d.content) = 1
    THEN AoiResult(Bounds(d.content[1]), "open", d.content, 1, "none")
    ELSE IF Len(d.content) > 1
    THEN AoiResult(MultiBounds(d.content), "open", d.content, 1, "none")
    ELSE AoiResult(<<>>, "open", d.content, 1, "AttributeError")

\* AOI.load_aoi followed by AOI.get_feature
load_aoi(d) ==
    IF d.exists THEN get_feature(d) ELSE AoiRaise("DriverError")

\* AOI.__init__(data_dir, data): the input-type dispatch
aoi_init(d) ==
    IF IsStr(d)
    THEN IF HasPolygonToken(d)
         THEN IF d.text = "wkt"
              THEN AoiResult(Bounds(d.geom), "None", <<>>, 0, "none")
              ELSE AoiRaise("GEOSException")
         ELSE IF d.exists THEN load_aoi(d)
         ELSE AoiRaise("TypeError")
    ELSE IF ~JoinPathOk(d) THEN AoiRaise("TypeError")
    ELSE IF JoinPathIsPath(d) THEN load_aoi(d)
    ELSE IF IsPolygon(d)
         THEN AoiResult(Bounds(d.geom), "None", <<>>, 0, "none")
    ELSE AoiRaise("TypeError")

AoiIdle ==
    /\ aoi_pc = "idle"
    /\ data = AoiData("other", "", <<>>, FALSE, <<>>)
    /\ geometry = <<>>
    /\ aoi = "None"
    /\ features = <<>>
    /\ opened = 0
    /\ aoi_err = "none"

\* ----------------------------------------------------- idle DataRetrieval
DataIdle ==
    /\ pc = "idle"
    /\ items = <<>>
    /\ altered_start_date = 0
    /\ altered_end_date = 0
    /\ idx = 0
    /\ labels = <<>>
    /\ dirs = {}
    /\ downloads = {}
    /\ err = "none"

MatchIdle ==
    /\ date_list = <<>>
    /\ pre_ret = NoRet
    /\ post_ret = NoRet

\* ------------------------------------------- specification: date matching
MatchInit ==
    /\ \/ /\ date_list \in Catalogs(MaxItems)
          /\ start_date \in Days
          /\ end_date \in Days
       \/ /\ date_list = ScenarioCatalog
          /\ start_date = ScenarioWindow.start
          /\ end_date = ScenarioWindow.end
    /\ pre_ret = NoRet
    /\ post_ret = NoRet
    /\ DataIdle
    /\ BamIdle
    /\ AoiIdle

\* get_closest_date(date_list, start_date, start=True)
MatchStart ==
    /\ pre_ret = NoRet
    /\ pre_ret' = get_closest_date(date_list, start_date, TRUE)
    /\ UNCHANGED <<aoiVars, bamVars, start_date, end_date, date_list, post_ret, dataVars>>

\* get_closest_date(date_list, end_date, start=False)
MatchEnd ==
    /\ post_ret = NoRet
    /\ post_ret' = get_closest_date(date_list, end_date, FALSE)
    /\ UNCHANGED <<aoiVars, bamVars, start_date, end_date, date_list, pre_ret, dataVars>>

MatchNext == MatchStart \/ MatchEnd

MatchSpec == MatchInit /\ [][MatchNext]_vars

\* ------------------------------------- specification: DataRetrieval.get_data
NoLabels(list) == [k \in 1..Len(list) |-> "none"]

\* check_out_dir(scene, event): the directory exists afterwards
check_out_dir(scene, event) == [scene |-> strip_scene_name(scene), event |-> event]

\* download_band(item, out_scene): one file per band, nir then swir22
download_band(k, out_scene) ==
    {[dir |-> out_scene, item |-> k, band |-> b] : b \in {"nir", "swir22"}}

DataInit ==
    /\ \/ /\ start_date \in Days
          /\ end_date \in Days
       \/ /\ start_date = ScenarioWindow.start
          /\ end_date = ScenarioWindow.end
    /\ MatchIdle
    /\ BamIdle
    /\ AoiIdle
    /\ pc = "alter_dates"
    /\ items = <<>>
    /\ altered_start_date = 0
    /\ altered_end_date = 0
    /\ idx = 0
    /\ labels = <<>>
    /\ dirs = {}
    /\ downloads = {}
    /\ err = "none"

\* DataRetrieval.alter_dates
AlterDates ==
    /\ pc = "alter_dates"
    /\ altered_start_date' = alter_date(start_date, "-", Delta)
    /\ altered_end_date' = alter_date(end_date, "+", Delta)
    /\ pc' = "connect_to_stac"
    /\ UNCHANGED <<aoiVars, bamVars, start_date, end_date, matchVars, items, idx, labels, dirs,
                   downloads, err>>

\* DataRetrieval.connect_to_stac: the search returns any list of items of
\* the widened window, in any order
ConnectToStac ==
    /\ pc = "connect_to_stac"
    /\ \E cat \in Catalogs(MaxItems) \cup {ScenarioCatalog} :
          /\ \A k \in 1..Len(cat) :
                /\ altered_start_date <= cat[k].created.day
                /\ cat[k].created.day <= altered_end_date
          /\ items' = cat
          /\ labels' = NoLabels(cat)
    /\ pc' = "check_items"
    /\ UNCHANGED <<aoiVars, bamVars, start_date, end_date, matchVars, altered_start_date,
                   altered_end_date, idx, dirs, downloads, err>>

\* a size check that is off by one
check_items_offbyone(list, required_data) == ~(Len(list) + 1 < required_data)

\* DataRetrieval.check_items(required_data)
check_items_ok(list, required_data) == ~(Len(list) < required_data)

CheckItems ==
    /\ pc = "check_items"
    /\ IF check_items_ok(items, RequiredData)
       THEN /\ pc' = "loop"
            /\ idx' = 1
            /\ err' = err
       ELSE /\ pc' = "raised"
            /\ err' = "AttributeError"
            /\ idx' = idx
    /\ UNCHANGED <<aoiVars, bamVars, start_date, end_date, matchVars, items, altered_start_date,
                   altered_end_date, labels, dirs, downloads>>

Labelled(event, name) ==
    /\ labels' = [labels EXCEPT ![idx] = name]
    /\ dirs' = dirs \cup {check_out_dir(items[idx].id, event)}
    /\ downloads' = downloads \cup
                      download_band(idx, check_out_dir(items[idx].id, event))
    /\ idx' = idx + 1
    /\ UNCHANGED <<pc, err>>

Raise(e) ==
    /\ pc' = "raised"
    /\ err' = e
    /\ UNCHANGED <<idx, labels, dirs, downloads>>

\* One pass of "for item in self.items" in get_data
LoopBody ==
    /\ pc = "loop"
    /\ idx <= Len(items)
    /\ LET pre == get_closest_date(items, start_date, TRUE)
           post == get_closest_date(items, end_date, FALSE)
       IN  IF pre.kind # "ok" THEN Raise(pre.kind)
           ELSE IF InId(pre.date, items[idx].id) THEN Labelled("pre", "Pre")
           ELSE IF post.kind # "ok" THEN Raise(post.kind)
           ELSE IF InId(post.date, items[idx].id) THEN Labelled("post", "Post")
           ELSE /\ idx' = idx + 1
                /\ UNCHANGED <<pc, err, labels, dirs, downloads>>
    /\ UNCHANGED <<aoiVars, bamVars, start_date, end_date, matchVars, items, altered_start_date,
                   altered_end_date>>

\* The for loop is exhausted: get_data returns
LoopEnd ==
    /\ pc = "loop"
    /\ idx > Len(items)
    /\ pc' = "done"
    /\ UNCHANGED <<aoiVars, bamVars, start_date, end_date, matchVars, items, altered_start_date,
                   altered_end_date, idx, labels, dirs, downloads, err>>

DataNext == AlterDates \/ ConnectToStac \/ CheckItems \/ LoopBody \/ LoopEnd

DataSpec == DataInit /\ [][DataNext]_vars

\* ------------------------ specification: BurntAreaMapper.get_burnt_area
runVars == <<start_date, end_date, matchVars, dataVars, aoiVars>>

BamInit ==
    /\ start_date = 1
    /\ end_date = 1
    /\ MatchIdle
    /\ DataIdle
    /\ AoiIdle
    /\ bpc = At_("pre", "init")
    /\ evdir \in [Events -> BOOLEAN]
    /\ tiles \in [Events -> [Bands -> 0..MaxTiles]]
    /\ \A e \in Events : ~evdir[e] => tiles[e] = [b \in Bands |-> 0]
    /\ handles = <<>>
    /\ ref = [e \in Events |-> NoRef]
    /\ arr = [e \in Events |-> NoArr]
    /\ grid = [e \in Events |-> NoGrid]
    /\ nbr = [e \in Events |-> NoImage]
    /\ dnbr = NoImage
    /\ dref = 0
    /\ out = [pre |-> <<>>, post |-> <<>>, dnbr |-> <<>>]
    /\ exc = "none"
    /\ orig = "none"

\* An exception leaves the body of "with Event(...) as e": e.__exit__ runs
Throw(e, x) ==
    /\ exc' = x
    /\ orig' = x
    /\ bpc' = At_(e, "exit")

\* Event.__init__ -> update_data_dir: next(iter(glob("*_<event>")))
EventInit(e) ==
    /\ bpc = At_(e, "init")
    /\ IF evdir[e]
       THEN /\ bpc' = At_(e, "swir")
            /\ UNCHANGED <<exc, orig>>
       ELSE /\ exc' = "StopIteration"
            /\ orig' = "StopIteration"
            /\ bpc' = IF e = "pre" THEN At_("bam", "exit")
                                   ELSE At_("pre", "exit")
    /\ UNCHANGED <<runVars, evdir, tiles, handles, ref, arr, grid, nbr, dnbr,
                   dref, out>>

\* merge_tiles(files): one Image per file from reproject_input, the mosaic
\* Image of the with block, all closed before merge_tiles returns
merge_tiles(e, n) ==
    [k \in 1..n |-> Handle(e, "tile", 1)] \o <<Handle(e, "mosaic", 1)>>

\* get_swir_file / get_nir_file followed by Image(data=...)
OpenedBy(e, n) ==
    IF n > RequiredTiles THEN handles \o merge_tiles(e, n) ELSE handles

\* get_rasters, first statement: self.swir = Image(data=self.get_swir_file())
OpenSwir(e) ==
    /\ bpc = At_(e, "swir")
    /\ IF tiles[e].swir = 0
       THEN /\ Throw(e, "StopIteration")
            /\ UNCHANGED <<handles, ref>>
       ELSE /\ handles' = Append(OpenedBy(e, tiles[e].swir), Handle(e, "swir", 0))
            /\ ref' = [ref EXCEPT ![e].swir = Len(OpenedBy(e, tiles[e].swir)) + 1]
            /\ bpc' = At_(e, "nir")
            /\ UNCHANGED <<exc, orig>>
    /\ UNCHANGED <<runVars, evdir, tiles, arr, grid, nbr, dnbr, dref, out>>

\* get_rasters, second statement: self.nir = Image(data=self.get_nir_file())
OpenNir(e) ==
    /\ bpc = At_(e, "nir")
    /\ IF tiles[e].nir = 0
       THEN /\ Throw(e, "StopIteration")
            /\ UNCHANGED <<handles, ref, grid>>
       ELSE /\ handles' = Append(OpenedBy(e, tiles[e].nir), Handle(e, "nir", 0))
            /\ ref' = [ref EXCEPT ![e].nir = Len(OpenedBy(e, tiles[e].nir)) + 1]
            /\ \E c \in NativeCRS :
                 grid' = [grid EXCEPT ![e].crs =
                            IF tiles[e].nir > RequiredTiles THEN WGS84 ELSE c]
            /\ bpc' = At_(e, "nbr_crop")
            /\ UNCHANGED <<exc, orig>>
    /\ UNCHANGED <<runVars, evdir, tiles, arr, nbr, dnbr, dref, out>>

\* crop_rasters: nir.mask(bbox, crop=True); swir.mask(bbox, crop=True)
CropRasters(e) ==
    /\ bpc = At_(e, "nbr_crop")
    /\ \E a \in PixelArrays, b \in PixelArrays, t \in 1..MaxTransform :
         /\ arr' = [arr EXCEPT ![e] = [nir |-> a, swir |-> b]]
         /\ grid' = [grid EXCEPT ![e].transform = t]
    /\ bpc' = At_(e, "nbr")
    /\ UNCHANGED <<runVars, evdir, tiles, handles, ref, nbr, dnbr, dref, out,
                   exc, orig>>

\* get_normalized_burnt_ratio after the crop: compute, wrap, write
ComputeNBR(e) ==
    /\ bpc = At_(e, "nbr")
    /\ IF Broadcastable(arr[e].nir, arr[e].swir)
       THEN /\ nbr' = [nbr EXCEPT ![e] =
                        [arr |-> NormalizedBurntRatio(arr[e].nir, arr[e].swir),
                         crs |-> grid[e].crs,
                         transform |-> grid[e].transform]]
            /\ handles' = Append(handles, Handle(e, "nbr", 0))
            /\ ref' = [ref EXCEPT ![e].nbr = Len(handles) + 1]
            /\ out' = [out EXCEPT ![e] =
                        NormalizedBurntRatio(arr[e].nir, arr[e].swir)]
            /\ bpc' = IF e = "pre" THEN At_("post", "init")
                                   ELSE At_("bam", "check_geometries")
            /\ UNCHANGED <<exc, orig>>
       ELSE /\ Throw(e, "ValueError")
            /\ UNCHANGED <<nbr, handles, ref, out>>
    /\ UNCHANGED <<runVars, evdir, tiles, arr, grid, dnbr, dref>>

\* Image.warp(dst_crs, nodata, target_align): nearest-neighbour resampling
\* of src onto a grid of n pixels, nodata where no source pixel falls
Warped(src, n) ==
    {[k \in 1..n |-> IF f[k] = 0 THEN Num(Nodata, 1) ELSE src[f[k]]] :
        f \in [1..n -> 0..Len(src)]}

\* BurntAreaMapper.check_geometries(nbr_pre, nbr_post)
check_geometries_differ(nbr_pre, nbr_post) ==
    Len(nbr_pre.arr) # Len(nbr_post.arr)

CheckGeometries ==
    /\ bpc = At_("bam", "check_geometries")
    /\ IF check_geometries_differ(nbr["pre"], nbr["post"])
       THEN \E w \in Warped(nbr["pre"].arr, Len(nbr["post"].arr)) :
              nbr' = [nbr EXCEPT !["pre"] =
                        [arr |-> w, crs |-> nbr["post"].crs,
                         transform |-> nbr["post"].transform]]
       ELSE nbr' = nbr
    /\ bpc' = At_("bam", "dnbr")
    /\ UNCHANGED <<runVars, evdir, tiles, handles, ref, arr, grid, dnbr, dref,
                   out, exc, orig>>

\* BurntAreaMapper.get_normalized_burnt_ratio_difference(nbr_pre, nbr_post)
GetDifference ==
    /\ bpc = At_("bam", "dnbr")
    /\ dnbr' = [arr |-> Difference(nbr["pre"].arr, nbr["post"].arr),
                crs |-> nbr["pre"].crs,
                transform |-> nbr["pre"].transform]
    /\ handles' = Append(handles, Handle("bam", "dnbr", 0))
    /\ dref' = Len(handles) + 1
    /\ out' = [out EXCEPT !.dnbr = Difference(nbr["pre"].arr, nbr["post"].arr)]
    /\ bpc' = At_("post", "exit")
    /\ UNCHANGED <<runVars, evdir, tiles, ref, arr, grid, nbr, exc, orig>>

\* Event.__exit__: self.nir.close(); self.swir.close()
EventExit(e) ==
    /\ bpc = At_(e, "exit")
    /\ IF ref[e].nir = 0
       THEN /\ exc' = "AttributeError"
            /\ handles' = handles
       ELSE IF ref[e].swir = 0
       THEN /\ exc' = "AttributeError"
            /\ handles' = CloseHandle(handles, ref[e].nir)
       ELSE /\ exc' = exc
            /\ handles' = CloseHandle(CloseHandle(handles, ref[e].nir),
                                      ref[e].swir)
    /\ orig' = IF orig = "none" THEN exc' ELSE orig
    /\ bpc' = IF e = "post" THEN At_("pre", "exit") ELSE At_("bam", "exit")
    /\ UNCHANGED <<runVars, evdir, tiles, ref, arr, grid, nbr, dnbr, dref, out>>

\* BurntAreaMapper.__exit__: self.dnbr.close()
BamExit ==
    /\ bpc = At_("bam", "exit")
    /\ IF dref = 0
       THEN /\ exc' = "AttributeError"
            /\ handles' = handles
       ELSE /\ exc' = exc
            /\ handles' = CloseHandle(handles, dref)
    /\ orig' = IF orig = "none" THEN exc' ELSE orig
    /\ bpc' = At_("bam", "done")
    /\ UNCHANGED <<runVars, evdir, tiles, ref, arr, grid, nbr, dnbr, dref, out>>

BamNext ==
    \/ \E e \in Events :
          \/ EventInit(e)
          \/ OpenSwir(e)
          \/ OpenNir(e)
          \/ CropRasters(e)
          \/ ComputeNBR(e)
          \/ EventExit(e)
    \/ CheckGeometries
    \/ GetDifference
    \/ BamExit

BamSpec == BamInit /\ [][BamNext]_vars

\* ---------------------------------------------- specification: AOI
otherVars == <<start_date, end_date, matchVars, dataVars, bamVars>>

AoiSpecInit ==
    /\ start_date = 1
    /\ end_date = 1
    /\ MatchIdle
    /\ DataIdle
    /\ BamIdle
    /\ aoi_pc = "init"
    /\ data \in AoiInputs
    /\ geometry = <<>>
    /\ aoi = "None"
    /\ features = <<>>
    /\ opened = 0
    /\ aoi_err = "none"

\* AOI.__init__(data_dir, data)
AoiConstruct ==
    /\ aoi_pc = "init"
    /\ geometry' = aoi_init(data).geometry
    /\ aoi' = aoi_init(data).aoi
    /\ features' = aoi_init(data).features
    /\ opened' = opened + aoi_init(data).opened
    /\ aoi_err' = aoi_init(data).err
    /\ aoi_pc' = IF aoi_init(data).err = "none" THEN "constructed" ELSE "raised"
    /\ UNCHANGED <<otherVars, data>>

\* AOI.__exit__ -> AOI.close
AoiExit ==
    /\ aoi_pc = "constructed"
    /\ aoi' = IF aoi # "None" THEN "closed" ELSE aoi
    /\ aoi_pc' = "closed"
    /\ UNCHANGED <<otherVars, data, geometry, features, opened, aoi_err>>

AoiNext == AoiConstruct \/ AoiExit

AoiSpec == AoiSpecInit /\ [][AoiNext]_vars

\* ======================================================= claims C1 .. C7
\* Timestamps of the catalog as the matcher sees them
Stamps(list) == {ParsedList(list)[k] : k \in 1..Len(list)}

StartOfDay(day) == CombineMin(ParseDate(day))
EndOfDay(day) == CombineMax(ParseDate(day))

C1_Scenario ==
    /\ date_list = ScenarioCatalog
    /\ start_date = ScenarioWindow.start
    /\ end_date = ScenarioWindow.end

\* C1: on the literal catalog [01-01T10:00, 01-05T10:00, 01-15T10:00,
\* 01-25T10:00] with start 01-03 and end 01-20, date matching raises no
\* error and selects the 01-01 item as pre-event and the 01-25 item as
\* post-event.
C1_ScenarioSelectsFirstAndLast ==
    (C1_Scenario /\ pre_ret # NoRet /\ post_ret # NoRet) =>
        /\ pre_ret.kind = "ok"
        /\ pre_ret.ts = ParseCreated(At10(1).created)
        /\ post_ret.kind = "ok"
        /\ post_ret.ts = ParseCreated(At10(25).created)

\* C2: whenever date matching on a catalog of at least two items returns
\* without error, the pre-event timestamp is the latest catalog timestamp
\* not later than the start of the start date, and the post-event timestamp
\* is the earliest catalog timestamp not earlier than the end of the end
\* date.
C2_BracketingSelection ==
    (Len(date_list) >= 2 /\ pre_ret.kind = "ok" /\ post_ret.kind = "ok") =>
        /\ pre_ret.ts \in Stamps(date_list)
        /\ pre_ret.ts <= StartOfDay(start_date)
        /\ \A t \in Stamps(date_list) :
              t <= StartOfDay(start_date) => t <= pre_ret.ts
        /\ post_ret.ts \in Stamps(date_list)
        /\ post_ret.ts >= EndOfDay(end_date)
        /\ \A t \in Stamps(date_list) :
              t >= EndOfDay(end_date) => post_ret.ts <= t

\* C3: when the start of the start date precedes every catalog timestamp,
\* pre-event selection signals an error, returns no item and reads no list
\* element at an index outside 0..N-1.
C3_NoCoveringPreSceneIsAnError ==
    (/\ pre_ret # NoRet
     /\ Len(date_list) >= 1
     /\ \A t \in Stamps(date_list) : StartOfDay(start_date) < t) =>
        /\ pre_ret.kind # "ok"
        /\ pre_ret.ts = 0

PreSel == get_closest_date(items, start_date, TRUE)
PostSel == get_closest_date(items, end_date, FALSE)

\* C4: for a catalog of at least two items, whenever get_data completes
\* without error some item is labelled Pre and some other item is labelled
\* Post, and get_data never completes normally when the pre-event and the
\* post-event selection resolve to the same matched date.
C4_DistinctPreAndPost ==
    (Len(items) >= 2 /\ pc = "done" /\ err = "none") =>
        /\ \E i \in 1..Len(items) : labels[i] = "Pre"
        /\ \E j \in 1..Len(items) : labels[j] = "Post"
        /\ ~(PreSel.kind = "ok" /\ PostSel.kind = "ok"
             /\ PreSel.date = PostSel.date)

\* C5: for a catalog of exactly two items with distinct dates and a window
\* with start date <= end date, get_data raises no error and labels one
\* item Pre and the other Post.
C5_TwoItemsSucceed ==
    (/\ pc \in {"done", "raised"}
     /\ Len(items) = 2
     /\ items[1].id.date # items[2].id.date
     /\ start_date <= end_date) =>
        /\ pc = "done"
        /\ err = "none"
        /\ {labels[1], labels[2]} = {"Pre", "Post"}

\* C6: when the catalog query returns fewer than two items, get_data raises
\* at the size check, before the matching loop starts, and no event
\* directory has been created and no band downloaded.
C6_TooFewItemsFailFast ==
    (pc \in {"loop", "done", "raised"} /\ Len(items) < 2) =>
        /\ pc = "raised"
        /\ err = "AttributeError"
        /\ idx = 0
        /\ \A k \in 1..Len(items) : labels[k] = "none"
        /\ dirs = {}
        /\ downloads = {}

C6_Witness ==
    /\ pc = "raised"
    /\ err = "AttributeError"
    /\ Len(items) = 1
    /\ dirs = {}

\* C7: whenever get_data ends in the error raised because no bracketing
\* item exists, no event directory has been created and no band has been
\* downloaded at the moment the error is raised.
C7_MatchErrorBeforeDownload ==
    (pc = "raised" /\ err = "IndexError") =>
        /\ dirs = {}
        /\ downloads = {}

\* ====================================================== claims C8 .. C10
\* C8: when a failure has propagated out of get_burnt_area, every SWIR, NIR
\* and NBR handle opened for the two events has been closed exactly once
\* and the propagating error is the original failure, not one raised by the
\* cleanup.
C8_FailureReleasesHandlesOnce ==
    (bpc = At_("bam", "exit") /\ exc # "none") =>
        /\ exc = orig
        /\ \A h \in 1..Len(handles) :
              handles[h].kind \in {"swir", "nir", "nbr"} =>
                  handles[h].closes = 1

\* C9: whenever the difference NBR_pre - NBR_post has been computed, the
\* two NBR rasters have the same array shape, the same CRS and the same
\* transform.
C9_DifferenceOnIdenticalGrid ==
    (dnbr # NoImage) =>
        /\ Len(nbr["pre"].arr) = Len(nbr["post"].arr)
        /\ nbr["pre"].crs = nbr["post"].crs
        /\ nbr["pre"].transform = nbr["post"].transform

\* C10: every pixel of a persisted NBR raster with NIR + SWIR = 0 holds the
\* nodata value, every other pixel holds (NIR - SWIR) / (NIR + SWIR), and
\* no infinite or not-a-number value is in the persisted NBR rasters or in
\* the dNBR raster.
C10_ZeroDenominatorIsNodata ==
    /\ \A e \in Events :
         out[e] # <<>> =>
            \A k \in 1..Len(out[e]) :
               LET n == At(arr[e].nir, k)
                   w == At(arr[e].swir, k)
               IN  /\ out[e][k].kind = "num"
                   /\ IF n + w = 0
                      THEN out[e][k] = Num(Nodata, 1)
                      ELSE out[e][k] = Num(n - w, n + w)
    /\ \A k \in 1..Len(out.dnbr) : out.dnbr[k].kind = "num"

\* ====================================================== claims C11 .. C12
\* Has the with block of event e been left
BlockLeft(e) ==
    IF e = "post"
    THEN bpc \in {At_("pre", "exit"), At_("bam", "exit"), At_("bam", "done")}
    ELSE bpc \in {At_("bam", "exit"), At_("bam", "done")}

\* C11: on a run without error, every handle opened for an event (SWIR,
\* NIR, mosaic tiles, NBR) is closed once the event's processing block has
\* been left, and every handle of the run, the dNBR included, is closed once
\* BurntAreaMapper has been exited.
C11_NoHandleSurvivesItsStage ==
    (orig = "none") =>
        /\ \A e \in Events :
             BlockLeft(e) =>
                \A h \in 1..Len(handles) :
                   handles[h].ev = e => handles[h].closes >= 1
        /\ bpc = At_("bam", "done") =>
              \A h \in 1..Len(handles) : handles[h].closes >= 1

\* C12: constructing AOI with a polygon object raises no error, opens no
\* vector file and sets the bounding box to the polygon's own extent.
C12_PolygonObjectGivesItsExtent ==
    (data.type = "Polygon" /\ aoi_pc \in {"constructed", "raised", "closed"}) =>
        /\ aoi_err = "none"
        /\ aoi_pc # "raised"
        /\ opened = 0
        /\ geometry = Bounds(data.geom)

====
